---------------------------- MODULE Spec2Model ----------------------------
(***************************************************************************)
(* Ramble voice-memo service: the per-file pipeline of                     *)
(* VoiceMemoProcessor (src/src/processor.py), the storage calls of         *)
(* DropboxClient (src/src/dropbox_client.py) it relies on, and the         *)
(* retry / circuit-breaker layer of src/src/error_handler.py.              *)
(*                                                                         *)
(* Four specifications share the module:                                   *)
(*   Spec         the main loop, the scanner loop and the file pipeline    *)
(*                over a storage holding NumItems recordings;              *)
(*   SpecTwo      two service instances scanning the same storage;         *)
(*   SpecBreaker  one CircuitBreaker driven by an arbitrary sequence of    *)
(*                calls and clock ticks;                                   *)
(*   SpecRetry    ErrorHandler.retry_with_backoff applied to arbitrary     *)
(*                parameters and operation outcomes.                       *)
(***************************************************************************)
EXTENDS Integers, Sequences, FiniteSets, TLC

(* ------------------------------ bounds --------------------------------- *)
\* recordings in storage (Spec)
NumItems == 2
\* recordings in the inbox both instances of SpecTwo scan
SharedItems == 1
\* last clock value of Spec, in seconds
MaxTime == 360
\* last clock value of SpecBreaker, in abstract time units
MaxNow == 5
\* calls made through the breaker of SpecBreaker
MaxCalls == 6
\* largest failure_threshold tried in SpecBreaker
MaxThreshold == 3
\* largest recovery_timeout tried in SpecBreaker, in time units
MaxTimeout == 2
\* largest max_retries / ErrorHandler default tried in SpecRetry
MaxRetries == 3
\* largest base_delay tried in SpecRetry
MaxBaseDelay == 2
\* largest backoff_factor tried in SpecRetry
MaxFactor == 3

(* ------------------------- program constants --------------------------- *)
\* processor.py:30  ErrorHandler(max_retries=3, base_delay=2.0)
HandlerMaxRetries == 3
HandlerBaseDelay == 2
\* error_handler.py:30  backoff_factor: float = 2.0
DefaultBackoffFactor == 2
\* processor.py:71 / processor.py:80  max_retries=3 / max_retries=2
TranscribeMaxRetries == 3
EnhanceMaxRetries == 2
\* processor.py:31  CircuitBreaker(failure_threshold=5, recovery_timeout=300)
TranscriptionThreshold == 5
TranscriptionRecovery == 300
\* processor.py:32  CircuitBreaker(failure_threshold=3, recovery_timeout=180)
LLMThreshold == 3
LLMRecovery == 180
\* the clock of Spec advances in steps of three minutes
TickStep == 180
\* config.py:131  PROCESSING_POLLING_INTERVAL, default '60'
DefaultPollingInterval == 60
\* main.py:54  time.sleep(60)  # Wait before retrying
FallbackInterval == 60
\* the polling intervals the service is configured with in Spec
PollingIntervals == {30, DefaultPollingInterval}

\* Python's None (last_failure_time, max_retries)
None == -1

VARIABLES
    loc,                    \* storage: where each recording currently is
    bundle,                 \* storage: artifacts uploaded under processed/ per recording
    files,                  \* process_inbox: the listing being iterated
    idx,                    \* process_inbox: position in the listing
    pc,                     \* control position of the service thread
    exc,                    \* the exception in flight ("none" when there is none)
    transcription_breaker,  \* VoiceMemoProcessor.transcription_breaker
    llm_breaker,            \* VoiceMemoProcessor.llm_breaker
    now,                    \* time.time()
    polling_interval,       \* config.processing.polling_interval, in seconds
    scan,                   \* observer: what the scan in hand did, and main's wait
    inst,                   \* SpecTwo: the service instances sharing the storage
    cur,                    \* observer: the calls made for the recording in hand
    hist,                   \* observer: each collaborator's consecutive failures
    cb,                     \* SpecBreaker: the CircuitBreaker under test
    cbpc,                   \* SpecBreaker: "idle", or "running" while func executes
    cbg,                    \* SpecBreaker observer: what the calls did
    rin,                    \* SpecRetry: the parameters of the call
    rout                    \* SpecRetry: what retry_with_backoff did

vars == <<loc, bundle, files, idx, pc, exc, transcription_breaker, llm_breaker,
          now, polling_interval, scan, inst, cur, hist, cb, cbpc, cbg, rin,
          rout>>

pipeVars == <<loc, bundle, files, idx, pc, exc, transcription_breaker,
              llm_breaker, cur, polling_interval, scan, inst, hist>>
breakerVars == <<cb, cbpc, cbg>>
retryVars == <<rin, rout>>

(* ======================================================================= *)
(*                 CircuitBreaker  (src/src/error_handler.py)              *)
(* ======================================================================= *)

\* CircuitBreaker.__init__
NewBreaker(threshold, timeout) ==
    [failure_threshold |-> threshold,
     recovery_timeout  |-> timeout,
     failure_count     |-> 0,
     last_failure_time |-> None,
     state             |-> "CLOSED"]

\* CircuitBreaker._should_attempt_reset
ShouldAttemptReset(b, t) ==
    IF b.last_failure_time = None
    THEN TRUE
    ELSE t - b.last_failure_time >= b.recovery_timeout

\* a breaker that never rejects a call
BlockedNever(b, t) == FALSE

\* CircuitBreaker.call, lines 153-158: TRUE when the call raises
\* "Circuit breaker is OPEN - operation blocked" before func is invoked
Blocked(b, t) == b.state = "OPEN" /\ ~ShouldAttemptReset(b, t)

\* a breaker whose rejections restart the cooldown
RejectRestartsCooldown(b, t) == [b EXCEPT !.last_failure_time = t]

\* CircuitBreaker.call, lines 157-158: the breaker after a rejected call; the
\* raise touches no attribute
Reject(b, t) == b

\* CircuitBreaker.call, lines 153-156: the breaker as func starts running
Admit(b, t) ==
    IF b.state = "OPEN" /\ ShouldAttemptReset(b, t)
    THEN [b EXCEPT !.state = "HALF_OPEN"]
    ELSE b

\* a breaker whose successes leave the failure count as it is
OnSuccessKeepsCount(b) ==
    [b EXCEPT !.state = IF @ = "HALF_OPEN" THEN "CLOSED" ELSE @,
              !.last_failure_time = None]

\* CircuitBreaker._on_success
OnSuccess(b) ==
    [b EXCEPT !.state = IF @ = "HALF_OPEN" THEN "CLOSED" ELSE @,
              !.failure_count = 0,
              !.last_failure_time = None]

\* a breaker that opens one failure late
OnFailureLate(b, t) ==
    [b EXCEPT !.failure_count = @ + 1,
              !.last_failure_time = t,
              !.state = IF b.failure_count + 1 > b.failure_threshold
                        THEN "OPEN" ELSE @]

\* a breaker that does not restart the cooldown at a failed probe
OnFailureStaleTime(b, t) ==
    [b EXCEPT !.failure_count = @ + 1,
              !.last_failure_time = IF b.state = "HALF_OPEN" THEN @ ELSE t,
              !.state = IF b.failure_count + 1 >= b.failure_threshold
                        THEN "OPEN" ELSE @]

\* a breaker that opens only from CLOSED, so that a failed probe leaves it
\* HALF_OPEN
OnFailureClosedOnly(b, t) ==
    [b EXCEPT !.failure_count = @ + 1,
              !.last_failure_time = t,
              !.state = IF /\ b.state = "CLOSED"
                           /\ b.failure_count + 1 >= b.failure_threshold
                        THEN "OPEN" ELSE @]

\* CircuitBreaker._on_failure
OnFailure(b, t) ==
    [b EXCEPT !.failure_count = @ + 1,
              !.last_failure_time = t,
              !.state = IF b.failure_count + 1 >= b.failure_threshold
                        THEN "OPEN" ELSE @]

\* a breaker that raises an error of its own in place of func's
ReraiseGeneric(e) == "Exception"

\* CircuitBreaker.call, lines 164-166: `except Exception as e: ...; raise e`,
\* what the call raises when func raised e
Reraise(e) == e

\* a breaker that keeps the failure count after a successful probe
CallReturnKeepsCount(b, ok, t) ==
    IF ok THEN [b EXCEPT !.state = IF @ = "HALF_OPEN" THEN "CLOSED" ELSE @]
          ELSE OnFailure(b, t)

\* CircuitBreaker.call, lines 160-166: func returned (ok) or raised (~ok)
CallReturn(b, ok, t) == IF ok THEN OnSuccess(b) ELSE OnFailure(b, t)

(* ======================================================================= *)
(*          ErrorHandler.retry_with_backoff  (src/src/error_handler.py)    *)
(* ======================================================================= *)

\* the events retry_with_backoff produces: a call of func, or a sleep
CallEv == <<"call", 0>>
SleepEv(d) == <<"sleep", d>>

\* line 50: retries = max_retries or self.max_retries  (None and 0 are falsy)
Retries(max_retries, self_max_retries) ==
    IF max_retries = None \/ max_retries = 0
    THEN self_max_retries
    ELSE max_retries

\* a loop that sleeps the same delay every time
NextDelayConstant(delay, backoff_factor) == delay

\* line 64: delay *= backoff_factor
NextDelay(delay, backoff_factor) == delay * backoff_factor

\* a loop whose except clause catches every error of func
CaughtAny(o) == TRUE

\* line 56: except exceptions as e -- whether the error of outcome o is an
\* instance of the `exceptions` passed
Caught(o) == o = "err"

\* lines 53-64: the for loop from `attempt` on.  outcomes[k] is what the k-th
\* invocation of func does: "ok" returns, "err" raises an exception that is
\* an instance of `exceptions`, "other" raises one that is not.
RECURSIVE RetryLoop(_, _, _, _, _, _)
RetryLoop(outcomes, retries, attempt, delay, backoff_factor, trace) ==
    IF attempt > retries
    THEN [result |-> "none", trace |-> trace]
    ELSE LET o  == outcomes[attempt + 1]
             tr == Append(trace, CallEv)
         IN  IF o = "ok" THEN [result |-> "ok", trace |-> tr]
             ELSE IF ~Caught(o) THEN [result |-> "raised", trace |-> tr]
             ELSE IF attempt = retries
                  THEN [result |-> "RetryError", trace |-> tr]
                  ELSE RetryLoop(outcomes, retries, attempt + 1,
                                 NextDelay(delay, backoff_factor),
                                 backoff_factor,
                                 Append(tr, SleepEv(delay)))

\* ErrorHandler.retry_with_backoff
RetryWithBackoff(outcomes, max_retries, self_max, base_delay, backoff_factor) ==
    RetryLoop(outcomes, Retries(max_retries, self_max), 0, base_delay,
              backoff_factor, <<>>)

\* number of invocations of func / the sleeps, in order, of a trace
NumCalls(trace) == Cardinality({k \in 1..Len(trace) : trace[k][1] = "call"})
Sleeps(trace) == SelectSeq(trace, LAMBDA e : e[1] = "sleep")
\* the seconds slept, in order (line 63: time.sleep(delay))
Delays(trace) == [j \in 1..Len(Sleeps(trace)) |-> Sleeps(trace)[j][2]]

\* an operation that fails k times with an eligible error and then succeeds
FailThenOk(k, n) == [j \in 1..n |-> IF j <= k THEN "err" ELSE "ok"]


(* ======================================================================= *)
(*   SpecRetry: retry_with_backoff on arbitrary parameters and outcomes    *)
(* ======================================================================= *)

Outcome == {"ok", "err", "other"}
\* what func does at each of its possible invocations
OutcomeSeqs == [1..(MaxRetries + 1) -> Outcome]

NoRun == [result |-> "idle", trace |-> <<>>]

RetryParams ==
    [outcomes         : OutcomeSeqs,
     max_retries      : {None} \cup 0..MaxRetries,
     self_max_retries : 0..MaxRetries,
     base_delay       : 1..MaxBaseDelay,
     backoff_factor   : 1..MaxFactor]

\* the parameters the pipeline passes for a transcription (processor.py 67-72)
PipelineRetryParams ==
    [outcomes         |-> [j \in 1..(MaxRetries + 1) |-> "ok"],
     max_retries      |-> TranscribeMaxRetries,
     self_max_retries |-> HandlerMaxRetries,
     base_delay       |-> HandlerBaseDelay,
     backoff_factor   |-> DefaultBackoffFactor]

RetryIdle == rin = PipelineRetryParams /\ rout = NoRun

\* one call of handler.retry_with_backoff(func, max_retries=..., ...)
RetryCall ==
    /\ rout = NoRun
    /\ rout' = RetryWithBackoff(rin.outcomes, rin.max_retries,
                                rin.self_max_retries, rin.base_delay,
                                rin.backoff_factor)
    /\ UNCHANGED <<rin, now>>
    /\ UNCHANGED pipeVars
    /\ UNCHANGED breakerVars

(* ======================================================================= *)
(*      SpecBreaker: one CircuitBreaker under calls and clock ticks        *)
(* ======================================================================= *)

NoCall == [state |-> "none", streak |-> 0, failAt |-> None, at |-> 0,
           opCalls |-> 0, prevRes |-> "none", prevState |-> "none",
           prevEndAt |-> None]

NewObserver == [calls |-> 0, opCalls |-> 0, streak |-> 0, failAt |-> None,
                res |-> "none", endAt |-> None, pre |-> NoCall]

\* what the observer notes as a call starts: the breaker's state, the run of
\* failed operations and the time of the last one, all before the call
Observe(g, b, t) ==
    [state |-> b.state, streak |-> g.streak, failAt |-> g.failAt, at |-> t,
     opCalls |-> g.opCalls, prevRes |-> g.res, prevState |-> g.pre.state,
     prevEndAt |-> g.endAt]

BreakerIdle ==
    /\ cb = NewBreaker(TranscriptionThreshold, TranscriptionRecovery)
    /\ cbpc = "idle"
    /\ cbg = NewObserver

\* breaker.call(func): lines 153-160, up to the invocation of func
CBCallBegin ==
    /\ cbpc = "idle"
    /\ cbg.calls < MaxCalls
    /\ IF Blocked(cb, now)
       THEN /\ cb' = Reject(cb, now)
            /\ cbpc' = "idle"
            /\ cbg' = [cbg EXCEPT !.calls = @ + 1, !.res = "blocked",
                                  !.endAt = now, !.pre = Observe(cbg, cb, now)]
       ELSE /\ cb' = Admit(cb, now)
            /\ cbpc' = "running"
            /\ cbg' = [cbg EXCEPT !.calls = @ + 1, !.opCalls = @ + 1,
                                  !.res = "running",
                                  !.pre = Observe(cbg, cb, now)]
    /\ UNCHANGED now
    /\ UNCHANGED pipeVars
    /\ UNCHANGED retryVars

\* breaker.call(func): lines 161-166, func returns or raises
CBCallEnd ==
    /\ cbpc = "running"
    /\ \E ok \in BOOLEAN :
          /\ cb' = CallReturn(cb, ok, now)
          /\ cbg' = [cbg EXCEPT !.res = IF ok THEN "ok" ELSE "err",
                                !.endAt = now,
                                !.streak = IF ok THEN 0 ELSE @ + 1,
                                !.failAt = IF ok THEN @ ELSE now]
    /\ cbpc' = "idle"
    /\ UNCHANGED now
    /\ UNCHANGED pipeVars
    /\ UNCHANGED retryVars

\* the clock advances, between calls or while func runs
CBTick ==
    /\ now < MaxNow
    /\ now' = now + 1
    /\ UNCHANGED breakerVars
    /\ UNCHANGED pipeVars
    /\ UNCHANGED retryVars


(* ======================================================================= *)
(*   Spec: the scanner loop and the file pipeline  (src/src/processor.py)  *)
(* ======================================================================= *)

Items == 1..NumItems

\* the documents of one processed bundle (file_organizer.py 46-57)
Artifacts == {"audio", "transcript", "content", "metadata"}

\* _upload_folder_to_dropbox walks local_folder.iterdir(); the documents are
\* taken in this order (iterdir's order is left to the file system; the
\* properties below depend only on how many uploads preceded a failure)
UploadOrder == <<"audio", "content", "metadata", "transcript">>
Uploaded(j) == {UploadOrder[k] : k \in 1..j}

\* where a recording is: in one of the service's three folders, deleted by the
\* service, or taken out of the inbox by somebody else
Locations == {"inbox", "processing", "failed", "deleted", "gone"}

\* what a storage call does: it returns, raises dropbox ApiError, or raises
\* anything else (HttpError, AuthError, a connection error, ...)
StorageOutcome == {"ok", "api_error", "error"}

\* the observer's record of the recording in hand, from its claim until the
\* loop moves on: the outcome of the claim, the stages called, the result of
\* the two retried calls with the failure_count their breaker had before, the
\* outcome of the two relocation moves, and how the run ended.  The numbers of
\* collaborator invocations (trCalls, enCalls) and the kind of error the
\* enhancement met (enErr) are kept until the organizer or the handler runs.
\* order lists the stages in the order they were called; dl and org are the
\* results of the download and of the organizer; local tells what has become
\* of the organizer's local bundle folder.
NoItem == [item |-> 0, claim |-> "none", calls |-> {}, tr |-> "none",
           trCalls |-> 0, trBefore |-> 0, en |-> "none", enCalls |-> 0,
           enBefore |-> 0, content |-> FALSE, abortMove |-> "none",
           scanMove |-> "none", run |-> "none", order |-> <<>>,
           dl |-> "none", org |-> "none", local |-> "none", enErr |-> "none",
           trSleeps |-> <<>>, enSleeps |-> <<>>, err |-> "none"]

\* observer: per collaborator, the number of consecutive runs of it that
\* raised (fails) and the time of the last of them (at); a run is one call of
\* retry_with_backoff under the collaborator's breaker (processor.py 67-72,
\* 75-81), and a rejected call is no run
NoHistory == [tr |-> [fails |-> 0, at |-> None], en |-> [fails |-> 0, at |-> None]]

\* the history after one more run that returned (ok) or raised
Remember(h, ok, t) ==
    IF ok THEN [fails |-> 0, at |-> None] ELSE [fails |-> h.fails + 1, at |-> t]

\* the observer's record of the scan in hand: what the listing gave ("ok" for
\* a listing with recordings, "empty", or "error" when it raised), the
\* recordings whose claim was attempted, in order, and how long main waited
\* after process_inbox ended (None until it has)
NoScan == [listing |-> "none", claimed |-> <<>>, slept |-> None]

\* the service instances of SpecTwo: two processes, each with its own
\* VoiceMemoProcessor, on the same Dropbox folder
Instances == {1, 2}

\* an instance that has not scanned yet: its control position, its listing
\* and its place in it, and the observer's sets of recordings: those it asked
\* the storage to claim and the storage answered (tried), those it claimed,
\* those it downloaded, transcribed, enhanced or published (worked), and
\* those it relocated or deleted after the claim step (moved)
NoInstance == [pc |-> "main", files |-> <<>>, idx |-> 0, tried |-> {},
               claimed |-> {}, worked |-> {}, moved |-> {}]

\* the service after VoiceMemoProcessor.__init__, nothing published yet
ServiceInit ==
    /\ bundle = [i \in Items |-> {}]
    /\ files = <<>>
    /\ idx = 0
    /\ pc = "main"
    /\ exc = "none"
    /\ transcription_breaker =
           NewBreaker(TranscriptionThreshold, TranscriptionRecovery)
    /\ llm_breaker = NewBreaker(LLMThreshold, LLMRecovery)
    /\ cur = NoItem
    /\ hist = NoHistory
    /\ scan = NoScan
    /\ inst = [p \in Instances |-> NoInstance]

PipeInit ==
    /\ loc = [i \in Items |-> "inbox"]
    /\ ServiceInit

RECURSIVE InboxFromAll(_, _)
\* a listing of the whole root folder: inbox/, processing/ and failed/
InboxFromAll(l, i) ==
    IF i > NumItems THEN <<>>
    ELSE IF l[i] \in {"inbox", "processing", "failed"}
         THEN <<i>> \o InboxFromAll(l, i + 1)
    ELSE InboxFromAll(l, i + 1)

RECURSIVE InboxFrom(_, _)
\* list_inbox_files (dropbox_client.py 53-110): the audio files of the inbox,
\* in the order of the listing
InboxFrom(l, i) ==
    IF i > NumItems THEN <<>>
    ELSE IF l[i] = "inbox" THEN <<i>> \o InboxFrom(l, i + 1)
    ELSE InboxFrom(l, i + 1)

\* a loop that walks the listing from its end
ItemReversed == files[Len(files) + 1 - idx]

\* the recording the loop of process_inbox is at
Item == files[idx]

\* somebody else takes a listed recording out of the inbox before it is claimed
Vanish ==
    /\ pc = "claim"
    /\ loc[Item] = "inbox"
    /\ loc' = [loc EXCEPT ![Item] = "gone"]
    /\ UNCHANGED <<bundle, files, idx, pc, exc, transcription_breaker,
                   llm_breaker, cur, now>>
    /\ UNCHANGED <<polling_interval, scan, inst, hist>>
    /\ UNCHANGED breakerVars
    /\ UNCHANGED retryVars

\* time passes; the clock is read only by the two breakers, so it is advanced
\* only where a breaker is about to read it
Tick ==
    /\ pc \in {"transcribe", "transcribe_run", "enhance", "enhance_run"}
    /\ now + TickStep <= MaxTime
    /\ now' = now + TickStep
    /\ UNCHANGED pipeVars
    /\ UNCHANGED <<polling_interval, scan, inst, hist>>
    /\ UNCHANGED breakerVars
    /\ UNCHANGED retryVars

\* what the observer notes of a listing
Listing(o, listed) ==
    IF o = "error" THEN "error" ELSE IF listed = <<>> THEN "empty" ELSE "ok"

\* a scan that, finding the inbox empty, sends what is left in processing/
\* to failed/
ListInboxSweeps ==
    /\ pc = "main"
    /\ \E o \in {"ok", "error"} :
          /\ IF o = "ok" /\ InboxFrom(loc, 1) # <<>>
             THEN /\ files' = InboxFrom(loc, 1)
                  /\ idx' = 1
                  /\ pc' = "claim"
                  /\ loc' = loc
             ELSE /\ files' = <<>>
                  /\ idx' = 0
                  /\ pc' = "returned"
                  /\ loc' = [i \in Items |->
                               IF o = "ok" /\ loc[i] = "processing"
                               THEN "failed" ELSE loc[i]]
          /\ scan' = [NoScan EXCEPT !.listing = Listing(o, InboxFrom(loc, 1))]
    /\ exc' = "none"
    /\ cur' = NoItem
    /\ UNCHANGED <<bundle, transcription_breaker, llm_breaker, now>>
    /\ UNCHANGED <<polling_interval, inst, hist>>
    /\ UNCHANGED breakerVars
    /\ UNCHANGED retryVars

\* process_inbox, lines 36-44 and 51-52: the listing.  An empty listing
\* returns; an error of the listing is caught by the outer handler, which
\* logs it, and process_inbox returns as well.
ListInbox ==
    /\ pc = "main"
    /\ \E o \in {"ok", "error"} :
          /\ IF o = "ok" /\ InboxFrom(loc, 1) # <<>>
             THEN /\ files' = InboxFrom(loc, 1)
                  /\ idx' = 1
                  /\ pc' = "claim"
             ELSE /\ files' = <<>>
                  /\ idx' = 0
                  /\ pc' = "returned"
          /\ scan' = [NoScan EXCEPT !.listing = Listing(o, InboxFrom(loc, 1))]
    /\ exc' = "none"
    /\ cur' = NoItem
    /\ UNCHANGED <<loc, bundle, transcription_breaker, llm_breaker, now>>
    /\ UNCHANGED <<polling_interval, inst, hist>>
    /\ UNCHANGED breakerVars
    /\ UNCHANGED retryVars

\* _process_single_file, line 60: move_to_processing (dropbox_client.py
\* 112-121).  The move succeeds only on a recording that is in the inbox; any
\* failure leaves _process_single_file before its try block.
Claim ==
    /\ pc = "claim"
    /\ \E o \in {"ok", "fail"} :
          IF o = "ok" /\ loc[Item] = "inbox"
          THEN /\ loc' = [loc EXCEPT ![Item] = "processing"]
               /\ pc' = "download"
               /\ exc' = "none"
               /\ cur' = [NoItem EXCEPT !.item = Item, !.claim = "ok",
                                        !.run = "running"]
          ELSE /\ loc' = loc
               /\ pc' = "scan_except"
               /\ exc' = "claim"
               /\ cur' = [NoItem EXCEPT !.item = Item, !.claim = "failed",
                                        !.run = "raised"]
    /\ scan' = [scan EXCEPT !.claimed = Append(@, Item)]
    /\ UNCHANGED <<bundle, files, idx, transcription_breaker, llm_breaker, now>>
    /\ UNCHANGED <<polling_interval, inst, hist>>
    /\ UNCHANGED breakerVars
    /\ UNCHANGED retryVars

\* line 64: download_file
Download ==
    /\ pc = "download"
    /\ \E ok \in BOOLEAN :
          /\ pc' = IF ok THEN "transcribe" ELSE "abort"
          /\ exc' = IF ok THEN "none" ELSE "download"
          /\ cur' = [cur EXCEPT !.calls = @ \cup {"download"},
                                !.order = Append(@, "download"),
                                !.dl = IF ok THEN "ok" ELSE "failed"]
    /\ UNCHANGED <<loc, bundle, files, idx, transcription_breaker,
                   llm_breaker, now>>
    /\ UNCHANGED <<polling_interval, scan, inst, hist>>
    /\ UNCHANGED breakerVars
    /\ UNCHANGED retryVars

RECURSIVE FailTimes(_, _, _)
\* n failures recorded one after the other
FailTimes(b, n, t) == IF n = 0 THEN b ELSE FailTimes(OnFailure(b, t), n - 1, t)

\* a breaker placed inside the retry loop: every failed attempt counts
AfterRetryPerAttempt(b, r, t) ==
    IF r.result = "ok"
    THEN OnSuccess(FailTimes(b, NumCalls(r.trace) - 1, t))
    ELSE FailTimes(b, NumCalls(r.trace), t)

\* lines 67-72 and 75-81: breaker.call(retry_with_backoff, ...): the breaker
\* sees the whole retry run r as the one call of func
AfterRetry(b, r, t) == CallReturn(b, r.result = "ok", t)

\* a pipeline that goes on after a failed stage
StageNextSwallow(result, okpc) == okpc

\* lines 62-100: a stage that raised leaves the try block for the handler
StageNext(result, okpc) == IF result = "ok" THEN okpc ELSE "abort"

\* lines 67-72: the transcription collaborator fails k times, then succeeds
TranscribeRetry(k) ==
    RetryWithBackoff(FailThenOk(k, TranscribeMaxRetries + 1),
                     TranscribeMaxRetries, HandlerMaxRetries,
                     HandlerBaseDelay, DefaultBackoffFactor)

\* the errors process_transcript meets: the call of the provider fails
\* (transport), or _parse_response rejects the response with ValueError
\* (content)
ErrorKinds == {"transport", "content"}

\* llm_processor.py 56-58: process_transcript catches either kind of error
\* and raises a plain Exception in its place, which the default
\* `exceptions=(Exception,)` of retry_with_backoff (error_handler.py:29)
\* makes eligible for a retry
ProcessTranscriptError(kind) ==
    CASE kind = "transport" -> "err"
      [] kind = "content"   -> "err"

\* lines 75-81: the enhancement collaborator fails k times with an error of
\* the given kind, then succeeds
EnhanceRetry(k, kind) ==
    RetryWithBackoff([j \in 1..(EnhanceMaxRetries + 1) |->
                         IF j <= k THEN ProcessTranscriptError(kind) ELSE "ok"],
                     EnhanceMaxRetries, HandlerMaxRetries,
                     HandlerBaseDelay, DefaultBackoffFactor)

\* line 67, error_handler.py 153-158: the transcription breaker is asked
TranscribeBegin ==
    /\ pc = "transcribe"
    /\ IF Blocked(transcription_breaker, now)
       THEN /\ transcription_breaker' = Reject(transcription_breaker, now)
            /\ pc' = "abort"
            /\ exc' = "circuit_open"
            /\ cur' = [cur EXCEPT !.tr = "blocked"]
       ELSE /\ transcription_breaker' = Admit(transcription_breaker, now)
            /\ pc' = "transcribe_run"
            /\ exc' = "none"
            /\ cur' = [cur EXCEPT
                         !.trBefore = transcription_breaker.failure_count]
    /\ UNCHANGED <<loc, bundle, files, idx, llm_breaker, now>>
    /\ UNCHANGED <<polling_interval, scan, inst, hist>>
    /\ UNCHANGED breakerVars
    /\ UNCHANGED retryVars

\* a processor whose two stages go through one breaker state
TranscribeRunSharedBreaker ==
    /\ pc = "transcribe_run"
    /\ \E k \in 0..(TranscribeMaxRetries + 1) :
          LET r == TranscribeRetry(k) IN
          /\ transcription_breaker' = AfterRetry(transcription_breaker, r, now)
          /\ llm_breaker' = AfterRetry(llm_breaker, r, now)
          /\ hist' = [hist EXCEPT !.tr = Remember(@, r.result = "ok", now)]
          /\ pc' = StageNext(r.result, "enhance")
          /\ exc' = IF r.result = "ok" THEN "none" ELSE Reraise(r.result)
          /\ cur' = [cur EXCEPT !.tr = r.result,
                                !.trCalls = NumCalls(r.trace),
                                !.trSleeps = Delays(r.trace),
                                !.calls = @ \cup {"transcribe"},
                                !.order = Append(@, "transcribe")]
    /\ UNCHANGED <<loc, bundle, files, idx, now>>
    /\ UNCHANGED <<polling_interval, scan, inst>>
    /\ UNCHANGED breakerVars
    /\ UNCHANGED retryVars

\* lines 67-72, error_handler.py 160-166: the retried transcription ends
TranscribeRun ==
    /\ pc = "transcribe_run"
    /\ \E k \in 0..(TranscribeMaxRetries + 1) :
          LET r == TranscribeRetry(k) IN
          /\ transcription_breaker' = AfterRetry(transcription_breaker, r, now)
          /\ hist' = [hist EXCEPT !.tr = Remember(@, r.result = "ok", now)]
          /\ pc' = StageNext(r.result, "enhance")
          /\ exc' = IF r.result = "ok" THEN "none" ELSE Reraise(r.result)
          /\ cur' = [cur EXCEPT !.tr = r.result,
                                !.trCalls = NumCalls(r.trace),
                                !.trSleeps = Delays(r.trace),
                                !.calls = @ \cup {"transcribe"},
                                !.order = Append(@, "transcribe")]
    /\ UNCHANGED <<loc, bundle, files, idx, llm_breaker, now>>
    /\ UNCHANGED <<polling_interval, scan, inst>>
    /\ UNCHANGED breakerVars
    /\ UNCHANGED retryVars

\* line 75, error_handler.py 153-158: the enhancement breaker is asked
EnhanceBegin ==
    /\ pc = "enhance"
    /\ IF Blocked(llm_breaker, now)
       THEN /\ llm_breaker' = Reject(llm_breaker, now)
            /\ pc' = "abort"
            /\ exc' = "circuit_open"
            /\ cur' = [cur EXCEPT !.en = "blocked"]
       ELSE /\ llm_breaker' = Admit(llm_breaker, now)
            /\ pc' = "enhance_run"
            /\ exc' = "none"
            /\ cur' = [cur EXCEPT !.enBefore = llm_breaker.failure_count]
    /\ UNCHANGED <<loc, bundle, files, idx, transcription_breaker, now>>
    /\ UNCHANGED <<polling_interval, scan, inst, hist>>
    /\ UNCHANGED breakerVars
    /\ UNCHANGED retryVars

\* lines 75-81, error_handler.py 160-166: the retried enhancement ends.  A
\* response that passes _parse_response (llm_processor.py 127-164) carries
\* session_title and topics; whether it also carries the top-level `content`
\* the organizer reads is up to the provider.
EnhanceRun ==
    /\ pc = "enhance_run"
    /\ \E k \in 0..(EnhanceMaxRetries + 1), kind \in ErrorKinds,
          c \in BOOLEAN :
          LET r == EnhanceRetry(k, kind) IN
          /\ llm_breaker' = AfterRetry(llm_breaker, r, now)
          /\ hist' = [hist EXCEPT !.en = Remember(@, r.result = "ok", now)]
          /\ pc' = StageNext(r.result, "organize")
          /\ exc' = IF r.result = "ok" THEN "none" ELSE Reraise(r.result)
          /\ cur' = [cur EXCEPT !.en = r.result,
                                !.enCalls = NumCalls(r.trace),
                                !.enSleeps = Delays(r.trace),
                                !.content = (c /\ r.result = "ok"),
                                !.enErr = IF k = 0 THEN "none" ELSE kind,
                                !.calls = @ \cup {"enhance"},
                                !.order = Append(@, "enhance")]
    /\ UNCHANGED <<loc, bundle, files, idx, transcription_breaker, now>>
    /\ UNCHANGED <<polling_interval, scan, inst>>
    /\ UNCHANGED breakerVars
    /\ UNCHANGED retryVars

\* an organizer that logs a failed upload and returns
OrganizeSwallowsUpload ==
    /\ pc = "organize"
    /\ \E o \in {"ok", "upload_error", "local_error"}, j \in 0..3 :
          /\ IF o = "ok" /\ cur.content
             THEN /\ bundle' = [bundle EXCEPT ![Item] = Artifacts]
                  /\ pc' = "delete"
                  /\ exc' = "none"
             ELSE IF o = "upload_error" /\ cur.content
             THEN /\ bundle' = [bundle EXCEPT ![Item] = Uploaded(j)]
                  /\ pc' = "delete"
                  /\ exc' = "none"
             ELSE /\ bundle' = bundle
                  /\ pc' = "abort"
                  /\ exc' = "organize"
          /\ cur' = [cur EXCEPT !.calls = @ \cup {"organize"},
                                !.order = Append(@, "organize"),
                                !.org = IF o # "local_error" /\ cur.content
                                        THEN "ok" ELSE "failed",
                                !.local = "removed",
                                !.trCalls = 0, !.enCalls = 0,
                                !.trSleeps = <<>>, !.enSleeps = <<>>,
                                !.enErr = "none"]
    /\ UNCHANGED <<loc, files, idx, transcription_breaker, llm_breaker, now>>
    /\ UNCHANGED <<polling_interval, scan, inst, hist>>
    /\ UNCHANGED breakerVars
    /\ UNCHANGED retryVars

\* lines 84-89: create_output_folder (file_organizer.py 31-75).  The four
\* documents are written locally (the content document needs
\* processed_content['content']), then uploaded one by one; an upload that
\* fails leaves the earlier uploads in storage.  The local folder is removed
\* on every way out (lines 66-68 after the upload, 70-75 on an error).
Organize ==
    /\ pc = "organize"
    /\ \E o \in {"ok", "upload_error", "local_error"}, j \in 0..3 :
          /\ IF o = "ok" /\ cur.content
             THEN /\ bundle' = [bundle EXCEPT ![Item] = Artifacts]
                  /\ pc' = "delete"
                  /\ exc' = "none"
             ELSE IF o = "upload_error" /\ cur.content
             THEN /\ bundle' = [bundle EXCEPT ![Item] = Uploaded(j)]
                  /\ pc' = "abort"
                  /\ exc' = "organize"
             ELSE /\ bundle' = bundle
                  /\ pc' = "abort"
                  /\ exc' = "organize"
          /\ cur' = [cur EXCEPT !.calls = @ \cup {"organize"},
                                !.order = Append(@, "organize"),
                                !.org = IF o = "ok" /\ cur.content
                                        THEN "ok" ELSE "failed",
                                !.local = "removed",
                                !.trCalls = 0, !.enCalls = 0,
                                !.trSleeps = <<>>, !.enSleeps = <<>>,
                                !.enErr = "none"]
    /\ UNCHANGED <<loc, files, idx, transcription_breaker, llm_breaker, now>>
    /\ UNCHANGED <<polling_interval, scan, inst, hist>>
    /\ UNCHANGED breakerVars
    /\ UNCHANGED retryVars

\* line 92: delete_processing_file (dropbox_client.py 162-169): an ApiError
\* of the delete is logged and swallowed
Delete ==
    /\ pc = "delete"
    /\ \E o \in StorageOutcome :
          /\ loc' = IF o = "ok" THEN [loc EXCEPT ![Item] = "deleted"] ELSE loc
          /\ pc' = IF o = "error" THEN "abort" ELSE "unlink"
          /\ exc' = IF o = "error" THEN "delete" ELSE "none"
    /\ cur' = [cur EXCEPT !.calls = @ \cup {"delete"},
                          !.order = Append(@, "delete")]
    /\ UNCHANGED <<bundle, files, idx, transcription_breaker, llm_breaker, now>>
    /\ UNCHANGED <<polling_interval, scan, inst, hist>>
    /\ UNCHANGED breakerVars
    /\ UNCHANGED retryVars

\* lines 93-95: local_path.unlink(), then the run has completed
Unlink ==
    /\ pc = "unlink"
    /\ \E ok \in BOOLEAN :
          /\ pc' = IF ok THEN "next" ELSE "abort"
          /\ exc' = IF ok THEN "none" ELSE "unlink"
          /\ cur' = [cur EXCEPT !.run = IF ok THEN "completed" ELSE @]
    /\ UNCHANGED <<loc, bundle, files, idx, transcription_breaker,
                   llm_breaker, now>>
    /\ UNCHANGED <<polling_interval, scan, inst, hist>>
    /\ UNCHANGED breakerVars
    /\ UNCHANGED retryVars

\* a move that takes the recording from whatever folder it is in
MoveResultAnywhere(o, i, from) == o

\* what a move out of folder `from` does to recording i: files_move_v2
\* raises ApiError when nothing is at the path it is given
MoveResult(o, i, from) ==
    IF o = "ok" /\ loc[i] # from THEN "api_error" ELSE o

\* lines 97-100: move_to_failed_from_processing (dropbox_client.py 151-160),
\* then `raise e`.  An ApiError of the move is logged and swallowed; any other
\* error of the move leaves the handler in place of e.
Abort ==
    /\ pc = "abort"
    /\ \E o \in StorageOutcome :
          LET m == MoveResult(o, Item, "processing") IN
          /\ loc' = IF m = "ok" THEN [loc EXCEPT ![Item] = "failed"] ELSE loc
          /\ exc' = IF m = "error" THEN "abort_move" ELSE exc
          /\ cur' = [cur EXCEPT !.abortMove = m, !.run = "raised",
                                !.err = exc,
                                !.trCalls = 0, !.enCalls = 0,
                                !.trSleeps = <<>>, !.enSleeps = <<>>,
                                !.enErr = "none"]
    /\ pc' = "scan_except"
    /\ UNCHANGED <<bundle, files, idx, transcription_breaker, llm_breaker, now>>
    /\ UNCHANGED <<polling_interval, scan, inst, hist>>
    /\ UNCHANGED breakerVars
    /\ UNCHANGED retryVars

\* a scanner that only logs the error of an item
ScanExceptLogOnly ==
    /\ pc = "scan_except"
    /\ pc' = "next"
    /\ exc' = "none"
    /\ UNCHANGED <<loc, bundle, files, idx, transcription_breaker,
                   llm_breaker, now, cur>>
    /\ UNCHANGED <<polling_interval, scan, inst, hist>>
    /\ UNCHANGED breakerVars
    /\ UNCHANGED retryVars

\* a scanner without the outer handler: an error of its move leaves
\* process_inbox for the main loop
ScanExceptPropagates ==
    /\ pc = "scan_except"
    /\ \E o \in StorageOutcome :
          LET m == MoveResult(o, Item, "inbox") IN
          /\ loc' = IF m = "ok" THEN [loc EXCEPT ![Item] = "failed"] ELSE loc
          /\ pc' = IF m = "error" THEN "returned" ELSE "next"
          /\ exc' = IF m = "error" THEN "scan_move" ELSE "none"
          /\ cur' = [cur EXCEPT !.scanMove = m]
    /\ UNCHANGED <<bundle, files, idx, transcription_breaker, llm_breaker, now>>
    /\ UNCHANGED <<polling_interval, scan, inst, hist>>
    /\ UNCHANGED breakerVars
    /\ UNCHANGED retryVars

\* process_inbox, lines 47-49: the error of an item is logged, then
\* move_to_failed (dropbox_client.py 141-149) moves the recording from its
\* inbox path to failed/.  An ApiError of the move is logged and swallowed;
\* any other error of the move leaves the for loop for the outer handler
\* (lines 51-52) and process_inbox returns.
ScanExcept ==
    /\ pc = "scan_except"
    /\ \E o \in StorageOutcome :
          LET m == MoveResult(o, Item, "inbox") IN
          /\ loc' = IF m = "ok" THEN [loc EXCEPT ![Item] = "failed"] ELSE loc
          /\ pc' = IF m = "error" THEN "returned" ELSE "next"
          /\ cur' = [cur EXCEPT !.scanMove = m]
    /\ exc' = "none"
    /\ UNCHANGED <<bundle, files, idx, transcription_breaker, llm_breaker, now>>
    /\ UNCHANGED <<polling_interval, scan, inst, hist>>
    /\ UNCHANGED breakerVars
    /\ UNCHANGED retryVars

\* process_inbox, line 44: the for loop takes the next recording of the
\* listing, or ends and process_inbox returns
NextItem ==
    /\ pc = "next"
    /\ IF idx < Len(files)
       THEN idx' = idx + 1 /\ pc' = "claim"
       ELSE idx' = idx /\ pc' = "returned"
    /\ cur' = NoItem
    /\ UNCHANGED <<loc, bundle, files, exc, transcription_breaker,
                   llm_breaker, now>>
    /\ UNCHANGED <<polling_interval, scan, inst, hist>>
    /\ UNCHANGED breakerVars
    /\ UNCHANGED retryVars

\* main.py, lines 45-54: process_inbox is back in the main loop, which
\* sleeps config.processing.polling_interval when it returned, and 60 seconds
\* when it raised an Exception; then the loop starts the next scan
MainSleep ==
    /\ pc = "returned"
    /\ scan' = [scan EXCEPT !.slept = IF exc = "none" THEN polling_interval
                                      ELSE FallbackInterval]
    /\ pc' = "main"
    /\ UNCHANGED <<loc, bundle, files, idx, exc, transcription_breaker,
                   llm_breaker, now, cur>>
    /\ UNCHANGED <<polling_interval, inst, hist>>
    /\ UNCHANGED breakerVars
    /\ UNCHANGED retryVars

(* ======================================================================= *)
(*   SpecTwo: two service instances scanning the same storage              *)
(* ======================================================================= *)

\* the variables of the single service of Spec
oneVars == <<files, idx, pc, exc, transcription_breaker, llm_breaker, now,
             cur, scan, polling_interval, hist>>

\* the recording instance p is at
TwoItem(p) == inst[p].files[inst[p].idx]

\* process_inbox, lines 36-44 and 51-52, in instance p; an empty listing or
\* an error of the listing ends the scan, and main starts the next one after
\* its sleep
TwoListInbox(p) ==
    /\ inst[p].pc = "main"
    /\ \E o \in {"ok", "error"} :
          IF o = "ok" /\ InboxFrom(loc, 1) # <<>>
          THEN inst' = [inst EXCEPT ![p].files = InboxFrom(loc, 1),
                                    ![p].idx = 1,
                                    ![p].pc = "claim"]
          ELSE inst' = [inst EXCEPT ![p].files = <<>>,
                                    ![p].idx = 0,
                                    ![p].pc = "main"]
    /\ UNCHANGED <<loc, bundle>>
    /\ UNCHANGED oneVars
    /\ UNCHANGED breakerVars
    /\ UNCHANGED retryVars

\* _process_single_file, line 60, in instance p: files_move_v2 from the inbox
\* path to processing/ is one atomic operation of the storage; it raises
\* ApiError when the recording is no longer at its inbox path
TwoClaim(p) ==
    /\ inst[p].pc = "claim"
    /\ \E o \in StorageOutcome :
          LET i == TwoItem(p)
              m == MoveResult(o, i, "inbox")
          IN  /\ loc' = IF m = "ok" THEN [loc EXCEPT ![i] = "processing"]
                        ELSE loc
              /\ inst' = [inst EXCEPT
                     ![p].pc = IF m = "ok" THEN "download" ELSE "scan_except",
                     ![p].tried = IF o = "ok" THEN @ \cup {i} ELSE @,
                     ![p].claimed = IF m = "ok" THEN @ \cup {i} ELSE @]
    /\ UNCHANGED bundle
    /\ UNCHANGED oneVars
    /\ UNCHANGED breakerVars
    /\ UNCHANGED retryVars

\* the position after a stage that returned
AfterStage(stage) ==
    CASE stage = "download"   -> "transcribe"
      [] stage = "transcribe" -> "enhance"
      [] stage = "enhance"    -> "organize"
      [] stage = "unlink"     -> "next"

\* lines 64-81 and 93, in instance p: the download, the transcription and
\* the enhancement (each with its breaker and its retries) and the unlink of
\* the local copy return, or raise into the handler of line 97
TwoStage(p) ==
    /\ inst[p].pc \in {"download", "transcribe", "enhance", "unlink"}
    /\ \E ok \in BOOLEAN :
          inst' = [inst EXCEPT
             ![p].pc = IF ok THEN AfterStage(inst[p].pc) ELSE "abort",
             ![p].worked = IF inst[p].pc = "unlink" THEN @
                           ELSE @ \cup {TwoItem(p)}]
    /\ UNCHANGED <<loc, bundle>>
    /\ UNCHANGED oneVars
    /\ UNCHANGED breakerVars
    /\ UNCHANGED retryVars

\* lines 84-89, in instance p: the bundle is published, or the organizer
\* raises after j uploads
TwoOrganize(p) ==
    /\ inst[p].pc = "organize"
    /\ \E ok \in BOOLEAN, j \in 0..3 :
          /\ bundle' = [bundle EXCEPT ![TwoItem(p)] =
                            IF ok THEN Artifacts ELSE @ \cup Uploaded(j)]
          /\ inst' = [inst EXCEPT
                 ![p].pc = IF ok THEN "delete" ELSE "abort",
                 ![p].worked = @ \cup {TwoItem(p)}]
    /\ UNCHANGED loc
    /\ UNCHANGED oneVars
    /\ UNCHANGED breakerVars
    /\ UNCHANGED retryVars

\* line 92, in instance p: delete_processing_file
TwoDelete(p) ==
    /\ inst[p].pc = "delete"
    /\ \E o \in StorageOutcome :
          LET i == TwoItem(p)
              m == MoveResult(o, i, "processing")
          IN  /\ loc' = IF m = "ok" THEN [loc EXCEPT ![i] = "deleted"] ELSE loc
              /\ inst' = [inst EXCEPT
                     ![p].pc = IF m = "error" THEN "abort" ELSE "unlink",
                     ![p].moved = IF m = "ok" THEN @ \cup {i} ELSE @]
    /\ UNCHANGED bundle
    /\ UNCHANGED oneVars
    /\ UNCHANGED breakerVars
    /\ UNCHANGED retryVars

\* lines 97-100, in instance p: move_to_failed_from_processing, then raise
TwoAbort(p) ==
    /\ inst[p].pc = "abort"
    /\ \E o \in StorageOutcome :
          LET i == TwoItem(p)
              m == MoveResult(o, i, "processing")
          IN  /\ loc' = IF m = "ok" THEN [loc EXCEPT ![i] = "failed"] ELSE loc
              /\ inst' = [inst EXCEPT
                     ![p].pc = "scan_except",
                     ![p].moved = IF m = "ok" THEN @ \cup {i} ELSE @]
    /\ UNCHANGED bundle
    /\ UNCHANGED oneVars
    /\ UNCHANGED breakerVars
    /\ UNCHANGED retryVars

\* process_inbox, lines 47-49, in instance p: move_to_failed from the inbox
\* path; an error other than ApiError ends the scan
TwoScanExcept(p) ==
    /\ inst[p].pc = "scan_except"
    /\ \E o \in StorageOutcome :
          LET i == TwoItem(p)
              m == MoveResult(o, i, "inbox")
          IN  /\ loc' = IF m = "ok" THEN [loc EXCEPT ![i] = "failed"] ELSE loc
              /\ inst' = [inst EXCEPT
                     ![p].pc = IF m = "error" THEN "main" ELSE "next",
                     ![p].moved = IF m = "ok" THEN @ \cup {i} ELSE @]
    /\ UNCHANGED bundle
    /\ UNCHANGED oneVars
    /\ UNCHANGED breakerVars
    /\ UNCHANGED retryVars

\* process_inbox, line 44, in instance p: the next recording of the listing,
\* or the end of the scan
TwoNextItem(p) ==
    /\ inst[p].pc = "next"
    /\ IF inst[p].idx < Len(inst[p].files)
       THEN inst' = [inst EXCEPT ![p].idx = @ + 1, ![p].pc = "claim"]
       ELSE inst' = [inst EXCEPT ![p].pc = "main"]
    /\ UNCHANGED <<loc, bundle>>
    /\ UNCHANGED oneVars
    /\ UNCHANGED breakerVars
    /\ UNCHANGED retryVars

(* --------------------------- specifications ---------------------------- *)

Init ==
    /\ PipeInit
    /\ polling_interval \in PollingIntervals
    /\ now = 0
    /\ BreakerIdle
    /\ RetryIdle

Next ==
    \/ Vanish
    \/ Tick
    \/ ListInbox
    \/ Claim
    \/ Download
    \/ TranscribeBegin
    \/ TranscribeRun
    \/ EnhanceBegin
    \/ EnhanceRun
    \/ Organize
    \/ Delete
    \/ Unlink
    \/ Abort
    \/ ScanExcept
    \/ NextItem
    \/ MainSleep

Spec == Init /\ [][Next]_vars

InitBreaker ==
    /\ PipeInit
    /\ polling_interval = DefaultPollingInterval
    /\ now = 0
    /\ RetryIdle
    /\ \E th \in 1..MaxThreshold, to \in 1..MaxTimeout : cb = NewBreaker(th, to)
    /\ cbpc = "idle"
    /\ cbg = NewObserver

NextBreaker == CBCallBegin \/ CBCallEnd \/ CBTick

SpecBreaker == InitBreaker /\ [][NextBreaker]_vars

InitRetry ==
    /\ PipeInit
    /\ polling_interval = DefaultPollingInterval
    /\ now = 0
    /\ BreakerIdle
    /\ rin \in RetryParams
    /\ rout = NoRun

NextRetry == RetryCall

SpecRetry == InitRetry /\ [][NextRetry]_vars

InitTwo ==
    /\ loc = [i \in Items |-> IF i <= SharedItems THEN "inbox" ELSE "gone"]
    /\ ServiceInit
    /\ polling_interval = DefaultPollingInterval
    /\ now = 0
    /\ BreakerIdle
    /\ RetryIdle

NextTwo ==
    \E p \in Instances :
        \/ TwoListInbox(p)
        \/ TwoClaim(p)
        \/ TwoStage(p)
        \/ TwoOrganize(p)
        \/ TwoDelete(p)
        \/ TwoAbort(p)
        \/ TwoScanExcept(p)
        \/ TwoNextItem(p)

SpecTwo == InitTwo /\ [][NextTwo]_vars

(* ======================================================================= *)
(*   SpecWarm: the service some time after its start, the breakers one     *)
(*   failure short of opening                                              *)
(* ======================================================================= *)

\* the consecutive failed runs <<transcription, enhancement>> the service
\* has behind it when the recordings of the model arrive: earlier recordings,
\* now in failed/, left one collaborator one failure short of its threshold
WarmStarts ==
    {<<TranscriptionThreshold - 1, 0>>, <<0, LLMThreshold - 1>>}

\* the history of n consecutive failed runs, the last at time t
FailedRuns(n, t) == [fails |-> n, at |-> IF n = 0 THEN None ELSE t]

\* processor.py 31-32: the breakers are attributes of the one processor and
\* live as long as the service; here they have counted the earlier failures
InitWarm ==
    /\ loc = [i \in Items |-> "inbox"]
    /\ bundle = [i \in Items |-> {}]
    /\ files = <<>>
    /\ idx = 0
    /\ pc = "main"
    /\ exc = "none"
    /\ \E w \in WarmStarts :
          /\ transcription_breaker =
                 FailTimes(NewBreaker(TranscriptionThreshold,
                                      TranscriptionRecovery), w[1], 0)
          /\ llm_breaker =
                 FailTimes(NewBreaker(LLMThreshold, LLMRecovery), w[2], 0)
          /\ hist = [tr |-> FailedRuns(w[1], 0), en |-> FailedRuns(w[2], 0)]
    /\ cur = NoItem
    /\ scan = NoScan
    /\ inst = [p \in Instances |-> NoInstance]
    /\ polling_interval = DefaultPollingInterval
    /\ now = 0
    /\ BreakerIdle
    /\ RetryIdle

SpecWarm == InitWarm /\ [][Next]_vars

(* ======================================================================= *)
(*   SpecWrapped: breaker.call(retry_with_backoff, func, ...), the way the *)
(*   pipeline wraps its collaborators, on arbitrary parameters             *)
(* ======================================================================= *)

\* processor.py 67-72, 75-81: one call of func through both wrappers.  The
\* breaker rejects it, or runs retry_with_backoff, counts what that returned
\* or raised and passes it on.
WrappedCall ==
    /\ cbg.calls = 0
    /\ IF Blocked(cb, now)
       THEN /\ cb' = Reject(cb, now)
            /\ rout' = rout
            /\ cbg' = [cbg EXCEPT !.calls = @ + 1, !.res = "blocked",
                                  !.endAt = now, !.pre = Observe(cbg, cb, now)]
       ELSE LET r  == RetryWithBackoff(rin.outcomes, rin.max_retries,
                                       rin.self_max_retries, rin.base_delay,
                                       rin.backoff_factor)
                ok == r.result = "ok"
            IN  /\ rout' = r
                /\ cb' = AfterRetry(Admit(cb, now), r, now)
                /\ cbg' = [cbg EXCEPT
                              !.calls = @ + 1, !.opCalls = @ + 1,
                              !.res = IF ok THEN "ok" ELSE Reraise(r.result),
                              !.endAt = now,
                              !.streak = IF ok THEN 0 ELSE @ + 1,
                              !.failAt = IF ok THEN @ ELSE now,
                              !.pre = Observe(cbg, cb, now)]
    /\ UNCHANGED <<now, cbpc, rin>>
    /\ UNCHANGED pipeVars

\* a breaker of the enhancement stage that has counted c consecutive
\* failures at time 0, and any parameters and outcomes of the retried call
InitWrapped ==
    /\ PipeInit
    /\ polling_interval = DefaultPollingInterval
    /\ now = 0
    /\ \E c \in 0..LLMThreshold :
          /\ cb = FailTimes(NewBreaker(LLMThreshold, LLMRecovery), c, 0)
          /\ cbg = [NewObserver EXCEPT !.streak = c,
                                       !.failAt = IF c = 0 THEN None ELSE 0]
    /\ cbpc = "idle"
    /\ rin \in RetryParams
    /\ rout = NoRun

NextWrapped == WrappedCall

SpecWrapped == InitWrapped /\ [][NextWrapped]_vars

(* ======================================================================= *)
(*   SpecStop: the service with a shutdown signal (main.py 45-61)          *)
(* ======================================================================= *)

\* a pipeline whose except clause also catches the shutdown signal: the
\* recording in flight is moved to failed/ before the service stops
InterruptAborts ==
    /\ pc # "stopped"
    /\ pc' = "stopped"
    /\ exc' = "KeyboardInterrupt"
    /\ IF cur.item \in Items /\ cur.run = "running"
       THEN /\ loc' = [loc EXCEPT ![cur.item] = "failed"]
            /\ cur' = [cur EXCEPT !.abortMove = "ok"]
       ELSE UNCHANGED <<loc, cur>>
    /\ UNCHANGED <<bundle, files, idx, transcription_breaker, llm_breaker, now>>
    /\ UNCHANGED <<polling_interval, scan, inst, hist>>
    /\ UNCHANGED breakerVars
    /\ UNCHANGED retryVars

\* main.py 49-51 and 60-61: KeyboardInterrupt is raised in the service
\* thread wherever it is.  It is a BaseException, so the `except Exception`
\* clauses of processor.py (lines 47, 51, 97) and of retry_with_backoff and
\* CircuitBreaker.call (error_handler.py 56, 164) let it pass; main catches
\* it, breaks out of the loop and returns 0.
Interrupt ==
    /\ pc # "stopped"
    /\ pc' = "stopped"
    /\ exc' = "KeyboardInterrupt"
    /\ UNCHANGED <<loc, bundle, files, idx, transcription_breaker,
                   llm_breaker, now, cur>>
    /\ UNCHANGED <<polling_interval, scan, inst, hist>>
    /\ UNCHANGED breakerVars
    /\ UNCHANGED retryVars

InitStop ==
    /\ PipeInit
    /\ polling_interval = DefaultPollingInterval
    /\ now = 0
    /\ BreakerIdle
    /\ RetryIdle

NextStop ==
    \/ Next
    \/ Interrupt

SpecStop == InitStop /\ [][NextStop]_vars

(* ======================================================================= *)
(*                              Properties                                 *)
(* ======================================================================= *)

\* the recording the observer is following
Followed == cur.item \in Items

\* process_inbox has returned to the main loop
ScanReturned == pc = "returned"

(* C1: a pipeline run that completes without raising leaves the recording in
   neither the inbox nor the processing folder, with one complete bundle
   (audio, raw transcript, content, metadata) in processed/.  Stated as the
   claim has it, the failing delete of the processing copy included. *)
C1_CompletedRunLeavesOnlyBundle ==
    (Followed /\ cur.run = "completed") =>
        /\ loc[cur.item] \notin {"inbox", "processing"}
        /\ bundle[cur.item] = Artifacts

(* C2: once the enhancement of a claimed recording has failed on every retry
   attempt, the organizer is never invoked for it, no document of it is in
   processed/, and the recording is in failed/ exactly when the move out of
   processing/ succeeded, and in processing/ otherwise. *)
C2_EnhanceExhaustedEndsFailed ==
    (Followed /\ cur.en = "RetryError") =>
        /\ "organize" \notin cur.calls
        /\ "delete" \notin cur.calls
        /\ bundle[cur.item] = {}
        /\ loc[cur.item] = IF cur.abortMove = "ok" THEN "failed"
                           ELSE "processing"
        /\ pc \in {"next", "returned", "main"} => cur.abortMove # "none"

C2_Witness ==
    /\ pc = "next"
    /\ Followed
    /\ cur.en = "RetryError"
    /\ cur.abortMove = "ok"
    /\ loc[cur.item] = "failed"

(* C3: batch isolation.  When process_inbox returns, the pipeline has been
   run on every recording of its listing, whatever was raised while an
   earlier one was handled. *)
C3_BatchIsolation ==
    ScanReturned => \A k \in 1..Len(files) : k <= idx

(* C9: the breaker counts a whole retried sequence as one call.  A
   transcription (enhancement) whose retries were exhausted has raised the
   failure_count of its breaker by exactly 1; one that succeeded, after
   however many failed attempts, has reset it to 0. *)
C9_RetryRunIsOneBreakerCall ==
    /\ cur.tr = "RetryError" =>
           transcription_breaker.failure_count = cur.trBefore + 1
    /\ cur.tr = "ok" => transcription_breaker.failure_count = 0
    /\ cur.en = "RetryError" => llm_breaker.failure_count = cur.enBefore + 1
    /\ cur.en = "ok" => llm_breaker.failure_count = 0

\* a transcription that succeeded at its third attempt with one failure on
\* the breaker, followed by an enhancement that failed all three attempts
C9_Witness ==
    /\ cur.tr = "ok"
    /\ cur.trCalls = 3
    /\ cur.trBefore = 1
    /\ cur.en = "RetryError"
    /\ cur.enCalls = EnhanceMaxRetries + 1
    /\ llm_breaker.failure_count = 1

(* C10, as claimed: when the claim step fails, no later stage is called for
   the recording, the service relocates it nowhere (it stays in the inbox, or
   stays gone), and the scan goes on. *)
C10_ClaimFailureLeavesItem ==
    (Followed /\ cur.claim = "failed") =>
        /\ cur.calls = {}
        /\ loc[cur.item] \in {"inbox", "gone"}
        /\ ScanReturned => idx = Len(files)

(* C10, amended: when the claim step fails, no download, transcribe, enhance,
   organize or delete call is made for the recording and the abort path is
   not run; the scanner then makes one move of the recording from the inbox
   to failed/: the recording is in failed/ exactly when that move succeeded
   and otherwise stays in the inbox or gone, never in processing/; the scan
   goes on to the next recording when the move returned or raised ApiError
   and ends when the move raised anything else. *)
C10_ClaimFailureMovedToFailed ==
    (Followed /\ cur.claim = "failed") =>
        /\ cur.calls = {}
        /\ cur.abortMove = "none"
        /\ bundle[cur.item] = {}
        /\ pc \in {"scan_except", "next", "returned", "main"}
        /\ (pc = "scan_except") = (cur.scanMove = "none")
        /\ (pc = "next") = (cur.scanMove \in {"ok", "api_error"})
        /\ (pc \in {"returned", "main"}) = (cur.scanMove = "error")
        /\ loc[cur.item] = "failed" <=> cur.scanMove = "ok"
        /\ loc[cur.item] \in {"inbox", "gone", "failed"}

C10_Witness ==
    /\ pc = "next"
    /\ Followed
    /\ cur.claim = "failed"
    /\ cur.scanMove = "ok"
    /\ loc[cur.item] = "failed"

(* ------------------------- CircuitBreaker ------------------------------ *)

\* a call has been made through the breaker of SpecBreaker
Called == cbg.res # "none"

\* time between the last failed operation and the start of the latest call
SinceLastFailure == cbg.pre.at - cbg.pre.failAt

(* C4: after failure_threshold consecutive failing calls, a call started
   before recovery_timeout has passed since the last failure is rejected and
   the operation is not invoked. *)
C4_BlockedAfterThresholdFailures ==
    (/\ Called
     /\ cbg.pre.streak >= cb.failure_threshold
     /\ cbg.pre.failAt # None
     /\ SinceLastFailure < cb.recovery_timeout) =>
        /\ cbg.res = "blocked"
        /\ cbpc = "idle"
        /\ cbg.opCalls = cbg.pre.opCalls

C4_Witness ==
    /\ cb.failure_threshold = 2
    /\ cbg.pre.streak = 2
    /\ cbg.pre.state = "OPEN"
    /\ SinceLastFailure < cb.recovery_timeout
    /\ cbg.res = "blocked"

(* C5: a call started on an OPEN breaker once recovery_timeout has passed
   since the last failure invokes the operation exactly once, as the
   HALF_OPEN probe; when the probe succeeds the breaker is CLOSED with
   failure_count 0 and last_failure_time cleared, and the call after it is
   let through. *)
C5_ProbeAfterRecovery ==
    /\ (/\ Called
        /\ cbg.pre.state = "OPEN"
        /\ SinceLastFailure >= cb.recovery_timeout) =>
           /\ cbg.res \in {"running", "ok", "err"}
           /\ cbg.opCalls = cbg.pre.opCalls + 1
           /\ cbg.res = "running" => cb.state = "HALF_OPEN"
           /\ cbg.res = "ok" => /\ cb.state = "CLOSED"
                                /\ cb.failure_count = 0
                                /\ cb.last_failure_time = None
    /\ (cbg.pre.prevState = "OPEN" /\ cbg.pre.prevRes = "ok") =>
           /\ cbg.pre.state = "CLOSED"
           /\ cbg.res # "blocked"
           /\ cbg.opCalls = cbg.pre.opCalls + 1

\* the call after a successful probe is running
C5_Witness ==
    /\ cbg.pre.prevState = "OPEN"
    /\ cbg.pre.prevRes = "ok"
    /\ cbg.res = "running"
    /\ cb.state = "CLOSED"

\* time between the end of the call before and the start of the latest call
SincePreviousCall == cbg.pre.at - cbg.pre.prevEndAt

(* C6: a failed HALF_OPEN probe puts the breaker back to OPEN with
   last_failure_time at the time of that failure; the call after it is
   rejected, the operation not invoked, unless a whole recovery_timeout has
   passed since the probe failed. *)
C6_FailedProbeReopens ==
    /\ (cbg.res = "err" /\ cbg.pre.state = "OPEN") =>
           /\ cb.state = "OPEN"
           /\ cb.last_failure_time = cbg.endAt
    /\ (Called /\ cbg.pre.prevState = "OPEN" /\ cbg.pre.prevRes = "err") =>
           IF SincePreviousCall < cb.recovery_timeout
           THEN cbg.res = "blocked" /\ cbg.opCalls = cbg.pre.opCalls
           ELSE cbg.res # "blocked" /\ cbg.opCalls = cbg.pre.opCalls + 1

\* a call rejected one time unit after a failed probe, the timeout being two
C6_Witness ==
    /\ cbg.pre.prevState = "OPEN"
    /\ cbg.pre.prevRes = "err"
    /\ cb.recovery_timeout = 2
    /\ SincePreviousCall = 1
    /\ cbg.res = "blocked"

(* ----------------------- retry_with_backoff ---------------------------- *)

RECURSIVE Pow(_, _)
Pow(b, e) == IF e = 0 THEN 1 ELSE b * Pow(b, e - 1)

\* retry_with_backoff has been called
Retried == rout # NoRun

\* the max_retries the caller asked for (the handler's when None is passed)
AskedRetries ==
    IF rin.max_retries = None THEN rin.self_max_retries ELSE rin.max_retries

\* func fails k times with an eligible error, then succeeds
FailsThenSucceeds(k) ==
    /\ \A j \in 1..k : rin.outcomes[j] = "err"
    /\ rin.outcomes[k + 1] = "ok"

\* k+1 calls with k sleeps between them, of base_delay * backoff_factor^(m-1)
BackoffTrace(k) ==
    [j \in 1..(2 * k + 1) |->
        IF j % 2 = 1 THEN CallEv
        ELSE SleepEv(rin.base_delay * Pow(rin.backoff_factor, (j \div 2) - 1))]

(* C7: for an operation that fails k < max_retries times with an eligible
   error and then succeeds, retry_with_backoff returns the success value
   after exactly k+1 invocations and exactly k sleeps of base_delay,
   base_delay*backoff_factor, ..., each between two consecutive attempts. *)
C7_SucceedsAfterKFailures ==
    Retried =>
        \A k \in 0..(AskedRetries - 1) :
            FailsThenSucceeds(k) =>
                /\ rout.result = "ok"
                /\ rout.trace = BackoffTrace(k)
                /\ NumCalls(rout.trace) = k + 1
                /\ Len(Sleeps(rout.trace)) = k

C7_Witness ==
    /\ Retried
    /\ rin.max_retries = 3
    /\ rin.base_delay = 2
    /\ rin.backoff_factor = 2
    /\ FailsThenSucceeds(2)
    /\ rout.trace = <<CallEv, SleepEv(2), CallEv, SleepEv(4), CallEv>>

(* C8: for every max_retries n >= 0 passed, whatever the handler's default,
   an operation that always fails with an eligible error is invoked exactly
   n+1 times with exactly n sleeps, none after the last attempt, and the call
   fails with RetryError. *)
C8_ExhaustsAfterNPlusOne ==
    (/\ Retried
     /\ rin.max_retries # None
     /\ \A j \in DOMAIN rin.outcomes : rin.outcomes[j] = "err") =>
        /\ rout.result = "RetryError"
        /\ NumCalls(rout.trace) = rin.max_retries + 1
        /\ Len(Sleeps(rout.trace)) = rin.max_retries
        /\ rout.trace[Len(rout.trace)] = CallEv

(* ------------------------- scans and main loop ------------------------- *)

(* C11: a scan whose listing is empty makes no claim, move, download, upload
   or delete call (storage and the observer's record of calls are left as
   they were), changes neither breaker and returns without error; this holds
   of every such scan, however many came before it. *)
C11_EmptyScanChangesNothing ==
    [][(pc = "main" /\ scan'.listing = "empty") =>
          /\ pc' = "returned"
          /\ exc' = "none"
          /\ files' = <<>>
          /\ cur' = NoItem
          /\ scan'.claimed = <<>>
          /\ loc' = loc
          /\ bundle' = bundle
          /\ transcription_breaker' = transcription_breaker
          /\ llm_breaker' = llm_breaker]_vars

\* an empty scan has returned while a recording is stuck in processing/ and
\* the other one has been published
C11_Witness ==
    /\ pc = "returned"
    /\ scan.listing = "empty"
    /\ \E i \in Items : loc[i] = "processing"
    /\ \E i \in Items : bundle[i] = Artifacts

(* C12: when the listing call of a scan raised, the main loop waits the
   fallback interval of 60 seconds before the next scan, whatever the polling
   interval is. *)
C12_ListingErrorWaitsFallback ==
    (pc = "main" /\ scan.listing = "error") => scan.slept = FallbackInterval

(* ------------------------- stages of one item -------------------------- *)

\* the organizer has raised for the recording the observer is following
OrganizeFailed == Followed /\ cur.org = "failed"

(* C13: when the organize stage fails at any point, also when a later upload
   fails after earlier documents were uploaded, no document of the recording
   is left under processed/ and the local bundle folder is removed. *)
C13_OrganizeFailureLeavesNoBundle ==
    OrganizeFailed =>
        /\ bundle[cur.item] = {}
        /\ cur.local = "removed"

\* the stages of _process_single_file after the claim, in program order
StageOrder == <<"download", "transcribe", "enhance", "organize", "delete">>

IsPrefix(s, t) == Len(s) <= Len(t) /\ s = SubSeq(t, 1, Len(s))

\* the number of stages called so far for the recording in hand
StagesCalled == Len(cur.order)

(* C14: the stages of one recording are called in program order, each at most
   once: the download only after the claim succeeded, the transcription only
   after the download returned, the enhancement only after the transcription
   returned a transcript, the organizer only after the enhancement returned,
   the delete only after the organizer returned; a run that completes has
   called all five. *)
C14_StagesInOrder ==
    /\ IsPrefix(cur.order, StageOrder)
    /\ StagesCalled >= 1 => Followed /\ cur.claim = "ok"
    /\ StagesCalled >= 2 => cur.dl = "ok"
    /\ StagesCalled >= 3 => cur.tr = "ok"
    /\ StagesCalled >= 4 => cur.en = "ok"
    /\ StagesCalled >= 5 => cur.org = "ok"
    /\ pc = "transcribe_run" => cur.order = <<"download">> /\ cur.dl = "ok"
    /\ pc = "enhance_run" => StagesCalled = 2 /\ cur.tr = "ok"
    /\ pc = "organize" => StagesCalled = 3 /\ cur.en = "ok"
    /\ pc = "delete" => StagesCalled = 4 /\ cur.org = "ok"
    /\ cur.run = "completed" => cur.order = StageOrder

C14_Witness ==
    /\ pc = "next"
    /\ Followed
    /\ cur.run = "completed"
    /\ cur.order = StageOrder
    /\ cur.tr = "ok"
    /\ cur.en = "ok"

(* C16: a content error of the enhancement collaborator (a response that
   cannot be parsed or lacks required fields) is not retried: the
   enhancement operation is invoked exactly once for the recording, which is
   then aborted. *)
C16_ContentErrorNotRetried ==
    (Followed /\ cur.enErr = "content") =>
        /\ cur.enCalls = 1
        /\ cur.en # "ok"
        /\ pc = "abort"

\* the pipeline of the recording in hand has ended: it completed, or it
\* raised and the relocation calls made for it have returned
Terminal ==
    \/ cur.run = "completed"
    \/ /\ cur.run = "raised"
       /\ cur.claim = "ok" => cur.abortMove # "none"
       /\ cur.scanMove \in {"ok", "api_error"}

(* C15: within one scan the recordings are claimed in the order of the
   listing, one at a time: the claims attempted so far are the first ones of
   the listing, no pipeline is open when a claim is made, and the loop moves
   on to recording i+1 only when the pipeline of recording i has completed,
   or has failed and its relocation calls have returned. *)
C15_ListingOrderOneAtATime ==
    /\ [](/\ IsPrefix(scan.claimed, files)
          /\ Len(scan.claimed) = IF pc = "claim" THEN idx - 1 ELSE idx
          /\ pc = "claim" => cur = NoItem)
    /\ [][(idx' = idx + 1 /\ idx >= 1) => (pc = "next" /\ Terminal)]_vars

\* the second recording of the listing has been claimed after the first one
\* failed and was moved to failed/
C15_Witness ==
    /\ pc = "download"
    /\ files = <<1, 2>>
    /\ scan.claimed = <<1, 2>>
    /\ loc[1] = "failed"
    /\ loc[2] = "processing"

\* the recording in hand was claimed and its pipeline raised
ClaimedAndFailed == Followed /\ cur.claim = "ok" /\ cur.run = "raised"

(* C17, as claimed: for a recording that fails after being claimed, the only
   relocation call is the pipeline's move from processing/ to failed/; the
   scanner loop makes no move call when it catches the error. *)
C17_OnlyPipelineRelocates ==
    ClaimedAndFailed =>
        /\ cur.abortMove # "none"
        /\ cur.scanMove = "none"

(* C17, amended: for a recording that fails after being claimed, the
   pipeline makes the one move from processing/ to failed/ and the recording
   is in failed/ exactly when that move succeeded; the scanner loop, on
   catching the error, makes one more move call, from the inbox to failed/,
   which never relocates the recording: it raises ApiError or another
   error. *)
C17_ScannerMoveRelocatesNothing ==
    ClaimedAndFailed =>
        /\ cur.abortMove # "none"
        /\ (pc = "scan_except") = (cur.scanMove = "none")
        /\ cur.scanMove \in {"none", "api_error", "error"}
        /\ loc[cur.item] = "failed" <=> cur.abortMove = "ok"
        /\ loc[cur.item] \in {"failed", "processing", "deleted"}

C17_Witness ==
    /\ pc = "next"
    /\ ClaimedAndFailed
    /\ cur.abortMove = "ok"
    /\ cur.scanMove = "api_error"
    /\ loc[cur.item] = "failed"

(* C19: no automatic reprocessing.  A listing holds only recordings that are
   in the inbox, and a listed recording not yet reached is never in failed/
   or processing/; only a recording in the inbox is ever claimed; a recording
   in failed/ stays there; a recording in processing/ is taken out of it only
   by the pipeline run that claimed it. *)
C19_NoReprocessing ==
    /\ [](\A k \in 1..Len(files) :
            k > idx => loc[files[k]] \in {"inbox", "gone"})
    /\ [][/\ (pc = "main" /\ pc' = "claim") =>
                \A k \in 1..Len(files') : loc[files'[k]] = "inbox"
          /\ (cur'.claim = "ok" /\ cur.claim # "ok") =>
                loc[cur'.item] = "inbox"
          /\ \A i \in Items :
                /\ loc[i] = "failed" => loc'[i] = "failed"
                /\ (loc[i] # "processing" /\ loc'[i] = "processing") =>
                      (loc[i] = "inbox" /\ pc = "claim" /\ Item = i)
                /\ (loc[i] = "processing" /\ loc'[i] # "processing") =>
                      /\ cur.item = i
                      /\ cur.claim = "ok"
                      /\ pc \in {"delete", "abort"}]_vars

\* a later scan has listed the second recording alone while the first one is
\* in failed/
C19_Witness ==
    /\ pc = "claim"
    /\ files = <<2>>
    /\ loc[1] = "failed"
    /\ loc[2] = "inbox"

(* C20: a successful call through a breaker leaves failure_count 0,
   last_failure_time cleared and the state CLOSED, so failure_count is the
   number of failures since the last success, the breaker is out of CLOSED
   only after failure_threshold failures with no success between them, and
   no call is rejected before that. *)
C20_SuccessResets ==
    /\ cbg.res = "ok" =>
           /\ cb.failure_count = 0
           /\ cb.last_failure_time = None
           /\ cb.state = "CLOSED"
    /\ cb.failure_count = cbg.streak
    /\ cb.state # "CLOSED" => cbg.streak >= cb.failure_threshold
    /\ cbg.res = "blocked" => cbg.pre.streak >= cb.failure_threshold

\* six calls, none rejected, on a breaker of threshold 3: the last two failed
\* and the one before them succeeded
C20_Witness ==
    /\ cb.failure_threshold = 3
    /\ cbg.calls = 6
    /\ cbg.opCalls = 6
    /\ cbg.res = "err"
    /\ cbg.streak = 2
    /\ cb.state = "CLOSED"

(* ------------------------- two service instances ----------------------- *)

\* the instances that claimed recording i
Claimants(i) == {p \in Instances : i \in inst[p].claimed}

(* C18: when two instances scan the same storage, the move from the inbox to
   processing/ succeeds for at most one of them on a given recording, and for
   one of them whenever the storage answered a claim of a recording that no
   scanner had sent to failed/; only the instance that claimed a recording
   downloads, transcribes, enhances or publishes it, and an instance that did
   not claim a recording never relocates or deletes one another instance
   claimed. *)
C18_OneClaimant ==
    \A i \in Items :
        /\ Cardinality(Claimants(i)) <= 1
        /\ \A p \in Instances :
              /\ i \in inst[p].worked => i \in inst[p].claimed
              /\ (i \in inst[p].moved /\ i \notin inst[p].claimed) =>
                    Claimants(i) = {}
              /\ i \in inst[p].tried =>
                    \/ Claimants(i) # {}
                    \/ \E q \in Instances : i \in inst[q].moved
        /\ bundle[i] # {} => Claimants(i) # {}

\* both instances listed the first recording; the first instance claimed and
\* published it, the second one asked for it, was refused and went on
C18_Witness ==
    /\ 1 \in inst[1].claimed
    /\ 1 \in inst[1].worked
    /\ bundle[1] = Artifacts
    /\ 1 \in inst[2].tried
    /\ 1 \notin inst[2].claimed
    /\ inst[2].files = <<1>>
    /\ inst[2].pc = "next"

(* --------------------- CircuitBreaker, continued ----------------------- *)

(* C29: a call rejected by an OPEN breaker leaves state, failure_count and
   last_failure_time as they were, so rejections never extend the cooldown:
   a call started on an OPEN breaker at or after the time of the last failed
   operation plus recovery_timeout is let through, also when the call before
   it was rejected. *)
C29_RejectionLeavesBreaker ==
    /\ [][(cbg'.calls = cbg.calls + 1 /\ cbg'.res = "blocked") =>
              /\ cb' = cb
              /\ cb.state = "OPEN"
              /\ cbg'.opCalls = cbg.opCalls]_vars
    /\ [](/\ cbg.res = "blocked" => cb.last_failure_time = cbg.failAt
          /\ (/\ Called
              /\ cbg.pre.state = "OPEN"
              /\ cbg.pre.prevRes = "blocked"
              /\ SinceLastFailure >= cb.recovery_timeout) =>
                 /\ cbg.res # "blocked"
                 /\ cbg.opCalls = cbg.pre.opCalls + 1)

\* a call let through right after a rejected one, two time units after the
\* last failure, the timeout being two
C29_Witness ==
    /\ cbg.pre.state = "OPEN"
    /\ cbg.pre.prevRes = "blocked"
    /\ cb.recovery_timeout = 2
    /\ SinceLastFailure = 2
    /\ cbg.res = "running"

(* C30: in every state of a breaker, OPEN implies failure_count >=
   failure_threshold and last_failure_time set, CLOSED implies failure_count
   < failure_threshold, and last_failure_time is None exactly when
   failure_count is 0. *)
C30_BreakerInvariant ==
    /\ cb.state = "OPEN" =>
           /\ cb.failure_count >= cb.failure_threshold
           /\ cb.last_failure_time # None
    /\ cb.state = "CLOSED" => cb.failure_count < cb.failure_threshold
    /\ (cb.last_failure_time = None) = (cb.failure_count = 0)

\* a breaker reopened by a failed probe, and one closed with failures
\* counted
C30_Witness ==
    /\ cb.state = "OPEN"
    /\ cb.failure_count = cb.failure_threshold + 1
    /\ cb.last_failure_time = now
    /\ cbg.pre.state = "OPEN"

(* ------------------- retry_with_backoff, continued --------------------- *)

\* the first j-1 invocations raise an eligible error and the j-th raises an
\* error that is no instance of `exceptions`
FirstOtherAt(j) ==
    /\ \A m \in 1..(j - 1) : rin.outcomes[m] = "err"
    /\ rin.outcomes[j] = "other"

(* C26: an error of func that is no instance of the eligible `exceptions` is
   not retried: it leaves retry_with_backoff unchanged, not wrapped in a
   RetryError, right after the invocation that raised it, with no sleep after
   it; raised by the first invocation, func has been invoked exactly once and
   nothing was slept. *)
C26_IneligibleErrorPropagates ==
    Retried =>
        /\ \A j \in 1..(Retries(rin.max_retries, rin.self_max_retries) + 1) :
               FirstOtherAt(j) =>
                   /\ rout.result = "raised"
                   /\ NumCalls(rout.trace) = j
                   /\ Len(Sleeps(rout.trace)) = j - 1
                   /\ rout.trace[Len(rout.trace)] = CallEv
        /\ rin.outcomes[1] = "other" => rout.trace = <<CallEv>>
        /\ rout.result = "raised" =>
               rin.outcomes[NumCalls(rout.trace)] = "other"

\* the first invocation raises an ineligible error though three retries were
\* asked for
C26_Witness ==
    /\ Retried
    /\ rin.outcomes[1] = "other"
    /\ rin.max_retries = 3
    /\ rout = [result |-> "raised", trace |-> <<CallEv>>]

(* ---------------------- file pipeline, continued ------------------------ *)

\* how often a stage occurs among the stages the item has run
Times(stage) == Cardinality({j \in 1..Len(cur.order) : cur.order[j] = stage})

(* C27: for one item the transcription collaborator is invoked at most 4
   times and the enhancement collaborator at most 3 times, each stage being
   run at most once; the sleeps between the attempts are 2, 4, 8 seconds for
   transcription and 2, 4 seconds for enhancement. *)
C27_CallBudget ==
    /\ cur.trCalls <= 4
    /\ cur.enCalls <= 3
    /\ Times("transcribe") <= 1
    /\ Times("enhance") <= 1
    /\ cur.trCalls >= 1 => cur.trSleeps = SubSeq(<<2, 4, 8>>, 1, cur.trCalls - 1)
    /\ cur.enCalls >= 1 => cur.enSleeps = SubSeq(<<2, 4>>, 1, cur.enCalls - 1)
    /\ cur.trCalls = 0 => cur.trSleeps = <<>>
    /\ cur.enCalls = 0 => cur.enSleeps = <<>>

\* the transcription succeeded at its fourth invocation and the enhancement
\* failed three times
C27_Witness ==
    /\ cur.tr = "ok"
    /\ cur.trCalls = 4
    /\ cur.trSleeps = <<2, 4, 8>>
    /\ cur.en = "RetryError"
    /\ cur.enCalls = 3
    /\ cur.enSleeps = <<2, 4>>

(* C24, as claimed: a failure at any stage after a successful claim makes
   the pipeline attempt exactly one move from processing/ to failed/, after
   which the error of the stage is what the scanner catches; when the move
   did not succeed the recording is still in processing/. *)
C24_AbortSurfacesOriginal ==
    ClaimedAndFailed =>
        /\ cur.abortMove # "none"
        /\ cur.err # "none"
        /\ pc = "scan_except" => exc = cur.err
        /\ cur.abortMove = "ok" => (pc = "scan_except" => loc[cur.item] = "failed")
        /\ cur.abortMove # "ok" => loc[cur.item] = "processing"

(* ------------------- breakers in the pipeline --------------------------- *)

\* the collaborator's breaker is within its recovery window after at least
\* `threshold` consecutive failed runs
InWindow(h, threshold, recovery) ==
    h.fails >= threshold /\ now - h.at < recovery

\* the pipeline of the recording in hand has raised, or is about to enter its
\* except clause
Aborting == pc \in {"abort", "scan_except", "next", "returned", "main"}

(* C22: a call rejected by an OPEN breaker never invokes the collaborator
   for that recording: the pipeline takes the abort path, no later stage
   runs, and the recording ends in failed/ (in processing/ when the abort
   move did not succeed); while a collaborator runs its breaker is not
   OPEN. *)
C22_BlockedCallAborts ==
    /\ pc = "transcribe_run" => transcription_breaker.state # "OPEN"
    /\ pc = "enhance_run" => llm_breaker.state # "OPEN"
    /\ (Followed /\ cur.tr = "blocked") =>
           /\ cur.calls = {"download"}
           /\ cur.trCalls = 0
           /\ cur.en = "none"
    /\ (Followed /\ cur.en = "blocked") =>
           /\ cur.calls = {"download", "transcribe"}
           /\ cur.tr = "ok"
           /\ cur.enCalls = 0
    /\ (Followed /\ "blocked" \in {cur.tr, cur.en}) =>
           /\ Aborting
           /\ bundle[cur.item] = {}
           /\ pc = "abort" => exc = "circuit_open" /\ loc[cur.item] = "processing"
           /\ pc # "abort" =>
                  /\ cur.abortMove # "none"
                  /\ loc[cur.item] =
                         IF cur.abortMove = "ok" THEN "failed" ELSE "processing"

\* the second recording of a scan is rejected by the transcription breaker
\* and ends in failed/
C22_Witness ==
    /\ cur.item = 2
    /\ cur.tr = "blocked"
    /\ transcription_breaker.state = "OPEN"
    /\ cur.abortMove = "ok"
    /\ loc[2] = "failed"

(* C23: the failures a breaker counts accumulate over the recordings and
   the scans of the service: once 5 consecutive transcription runs (3
   consecutive enhancement runs) have exhausted their retries with no
   successful run in between, a recording that reaches the stage within 300
   (180) seconds of the last failure fails without the collaborator being
   invoked; before that many failures no call is rejected. *)
C23_FailuresAccumulate ==
    /\ pc = "transcribe_run" =>
           ~InWindow(hist.tr, 5, 300)
    /\ pc = "enhance_run" =>
           ~InWindow(hist.en, 3, 180)
    /\ (Followed /\ cur.tr = "blocked") =>
           /\ hist.tr.fails >= 5
           /\ cur.trCalls = 0
           /\ "transcribe" \notin cur.calls
           /\ Aborting
    /\ (Followed /\ cur.en = "blocked") =>
           /\ hist.en.fails >= 3
           /\ cur.enCalls = 0
           /\ "enhance" \notin cur.calls
           /\ Aborting
    /\ (Followed /\ cur.tr = "RetryError") => hist.tr.fails >= 1
    /\ (Followed /\ cur.tr = "ok") => hist.tr.fails = 0

\* the fifth failure in a row came from the first recording of an earlier
\* scan; the recording of a later scan is rejected within the window
C23_Witness ==
    /\ hist.tr = [fails |-> 5, at |-> 0]
    /\ loc[1] = "failed"
    /\ files = <<2>>
    /\ cur.item = 2
    /\ cur.tr = "blocked"
    /\ now = 180

(* C28: the two breakers are independent.  A step of the transcription
   stage (a rejection, or a run that fails or succeeds) leaves the
   enhancement breaker as it was, and a step of the enhancement stage leaves
   the transcription breaker as it was; a recording rejected by the
   transcription breaker never reaches the enhancement stage. *)
C28_BreakersIndependent ==
    /\ [][/\ pc \in {"transcribe", "transcribe_run"} =>
                 /\ llm_breaker' = llm_breaker
                 /\ hist'.en = hist.en
          /\ pc \in {"enhance", "enhance_run"} =>
                 /\ transcription_breaker' = transcription_breaker
                 /\ hist'.tr = hist.tr]_vars
    /\ [](/\ (Followed /\ cur.tr # "ok") =>
                 /\ cur.en = "none"
                 /\ "enhance" \notin cur.calls
          /\ pc \in {"enhance", "enhance_run"} =>
                 /\ cur.tr = "ok"
                 /\ transcription_breaker.state = "CLOSED"
                 /\ transcription_breaker.failure_count = 0)

\* with the enhancement breaker OPEN after its third failure, the
\* transcription of the next recording has run and succeeded, and the
\* enhancement breaker is as the third failure left it
C28_Witness ==
    /\ cur.item = 2
    /\ pc = "enhance"
    /\ cur.tr = "ok"
    /\ transcription_breaker.failure_count = 0
    /\ llm_breaker.state = "OPEN"
    /\ llm_breaker.failure_count = 3
    /\ llm_breaker.last_failure_time = 0
    /\ now = 180

(* ----------------------------- shutdown -------------------------------- *)

\* the service was stopped while the pipeline of a claimed recording had
\* neither completed nor raised
StoppedInFlight ==
    /\ pc = "stopped"
    /\ Followed
    /\ cur.claim = "ok"
    /\ cur.run = "running"

(* C25, as claimed: a KeyboardInterrupt that arrives while a recording is in
   flight leaves that recording in processing/, neither moved to failed/ nor
   deleted, the abort path not having run. *)
C25_InterruptLeavesInProcessing ==
    StoppedInFlight =>
        /\ loc[cur.item] = "processing"
        /\ cur.abortMove = "none"

(* C25, amended: a KeyboardInterrupt stops the service where it is.  The
   step that stops it moves and deletes nothing and changes no breaker; the
   abort path is not run for a recording in flight, which is never in
   failed/: it is in processing/ when the interrupt arrives before the delete
   of the processing copy was called, and otherwise where that call left it.
   No later recording of the listing has been claimed, and once stopped the
   service takes no further step. *)
C25_InterruptStopsService ==
    /\ [][/\ (pc # "stopped" /\ pc' = "stopped") =>
                 /\ exc' = "KeyboardInterrupt"
                 /\ UNCHANGED <<loc, bundle, cur, files, idx, scan, hist,
                                transcription_breaker, llm_breaker>>
          /\ pc = "stopped" =>
                 /\ pc' = "stopped"
                 /\ UNCHANGED <<bundle, cur, files, idx, scan, hist, exc,
                                transcription_breaker, llm_breaker>>
                 /\ \A i \in Items : loc'[i] # loc[i] => loc[i] = "inbox"]_vars
    /\ [](/\ StoppedInFlight =>
                 /\ cur.abortMove = "none"
                 /\ cur.scanMove = "none"
                 /\ loc[cur.item] \in {"processing", "deleted"}
                 /\ "delete" \notin cur.calls => loc[cur.item] = "processing"
          /\ pc = "stopped" =>
                 \A j \in (idx + 1)..Len(files) :
                     loc[files[j]] \in {"inbox", "gone"})

\* stopped during the enhancement of the first of two listed recordings
C25_Witness ==
    /\ StoppedInFlight
    /\ cur.item = 1
    /\ cur.order = <<"download", "transcribe">>
    /\ loc[1] = "processing"
    /\ files = <<1, 2>>
    /\ loc[2] = "inbox"

(* ----------------------- the two wrappers together ---------------------- *)

\* the call through both wrappers has been made
Wrapped == cbg.calls = 1

\* some invocation of func that retry_with_backoff made returned
SomeAttemptSucceeded ==
    \E j \in 1..NumCalls(rout.trace) : rin.outcomes[j] = "ok"

(* C21: neither wrapper swallows a failure.  When retry_with_backoff, run
   under the breaker, raises, the breaker's failure_count goes up by exactly
   1 and the call raises that same error; retry_with_backoff returns only
   when an invocation of func returned, and otherwise raises (RetryError
   after the last eligible error, or the ineligible error itself); a
   rejected call invokes nothing and raises as well. *)
C21_NoFailureSwallowed ==
    Wrapped =>
        /\ cbg.res \in {"ok", "RetryError", "raised", "blocked"}
        /\ cbg.res = "blocked" => rout = NoRun
        /\ cbg.res # "blocked" =>
               /\ rout.result \in {"ok", "RetryError", "raised"}
               /\ cbg.res = rout.result
               /\ (rout.result = "ok") = SomeAttemptSucceeded
        /\ cbg.res \in {"RetryError", "raised"} =>
               /\ cb.failure_count = cbg.pre.streak + 1
               /\ cb.last_failure_time = now
        /\ cbg.res = "ok" =>
               /\ rin.outcomes[NumCalls(rout.trace)] = "ok"
               /\ cb.failure_count = 0

\* every attempt fails with an eligible error: the breaker, at one failure
\* before, counts two and raises the RetryError
C21_Witness ==
    /\ Wrapped
    /\ cbg.pre.streak = 1
    /\ rin.max_retries = 2
    /\ \A j \in 1..3 : rin.outcomes[j] = "err"
    /\ rout.result = "RetryError"
    /\ NumCalls(rout.trace) = 3
    /\ cbg.res = "RetryError"
    /\ cb.failure_count = 2

(* C31: HALF_OPEN is transient.  Whenever no call is running, that is after
   every call that returned, raised an ordinary error or was rejected, the
   breaker is CLOSED or OPEN; it is HALF_OPEN only while the one probe runs
   that was let through from OPEN after the recovery timeout, and a probe
   that failed starts a new recovery window. *)
C31_HalfOpenTransient ==
    /\ cbpc = "idle" => cb.state \in {"CLOSED", "OPEN"}
    /\ cb.state = "HALF_OPEN" =>
           /\ cbpc = "running"
           /\ cbg.res = "running"
           /\ cbg.pre.state = "OPEN"
           /\ cbg.pre.at - cbg.pre.failAt >= cb.recovery_timeout
    /\ (Called /\ cbg.pre.state = "OPEN" /\ cbg.res = "err") =>
           /\ cb.state = "OPEN"
           /\ cb.last_failure_time = cbg.endAt
    /\ (Called /\ cbg.pre.state = "OPEN" /\ cbg.res = "ok") =>
           cb.state = "CLOSED"

\* a probe has failed and the breaker is OPEN again, no call running
C31_Witness ==
    /\ cbpc = "idle"
    /\ cbg.pre.state = "OPEN"
    /\ cbg.res = "err"
    /\ cbg.opCalls = cbg.pre.opCalls + 1
    /\ cb.state = "OPEN"

(* ------------------------------ scanner -------------------------------- *)

(* C32: process_inbox never passes an ordinary error on to the main loop,
   whatever failed in it (the listing, a claim, a stage of the pipeline, the
   abort move or the scanner's own move): when it is back in the main loop
   no exception is in flight, and the wait that follows is the polling
   interval. *)
C32_ScannerCatchesAll ==
    /\ pc = "returned" => exc = "none"
    /\ (pc = "main" /\ scan.slept # None) =>
           /\ exc = "none"
           /\ scan.slept = polling_interval

\* the scan ended by an error of the scanner's move for a recording whose
\* pipeline had raised; main waited the 30 seconds it is configured with
C32_Witness ==
    /\ pc = "main"
    /\ Followed
    /\ cur.run = "raised"
    /\ cur.scanMove = "error"
    /\ polling_interval = 30
    /\ scan.slept = 30

(* ---------------------- enhancement and organizer ---------------------- *)

(* C33, as claimed: every enhancement result that process_transcript returns
   carries the fields the organizer reads, the top-level content among them,
   so the organizer does not fail on a validated result for want of a
   field. *)
C33_ValidatedResultHasFields ==
    (Followed /\ cur.en = "ok") =>
        /\ cur.content
        /\ cur.org = "failed" => cur.content

(* ------------------------------ storage -------------------------------- *)

(* C34, as claimed: no recording has both its complete bundle under
   processed/ and a copy in failed/; a failure while finalizing, after the
   bundle was published, does not leave the recording in failed/. *)
C34_NoBundleAndFailed ==
    \A i \in Items : ~(bundle[i] = Artifacts /\ loc[i] = "failed")

\* where a recording that is still in storage can be
Kept == {"inbox", "processing", "failed"}

(* C35: no recording is lost.  The only step of the service that takes a
   recording out of inbox/, processing/ and failed/ is the delete of the
   processing copy, made after the organizer returned with all four
   documents uploaded; the user may remove a recording from the inbox, and
   nothing else does.  So a deleted recording has its complete bundle, and a
   claimed recording is in processing/ or failed/ until that delete. *)
C35_NoRecordingLost ==
    /\ [][\A i \in Items :
             (loc[i] \in Kept /\ loc'[i] \notin Kept) =>
                 \/ /\ loc'[i] = "deleted"
                    /\ loc[i] = "processing"
                    /\ pc = "delete"
                    /\ i = cur.item
                    /\ cur.org = "ok"
                    /\ bundle[i] = Artifacts
                 \/ /\ loc'[i] = "gone"
                    /\ loc[i] = "inbox"
                    /\ cur' = cur
                    /\ pc' = pc]_vars
    /\ [](/\ \A i \in Items : loc[i] = "deleted" => bundle[i] = Artifacts
          /\ (Followed /\ cur.claim = "ok") =>
                 /\ loc[cur.item] \in {"processing", "failed", "deleted"}
                 /\ loc[cur.item] = "deleted" =>
                        /\ cur.org = "ok"
                        /\ "delete" \in cur.calls)

\* the first recording deleted with its bundle published, the second one
\* failed and kept in failed/
C35_Witness ==
    /\ loc[1] = "deleted"
    /\ bundle[1] = Artifacts
    /\ loc[2] = "failed"
    /\ bundle[2] = {}
    /\ cur.item = 2
    /\ cur.abortMove = "ok"

=============================================================================
